---- MODULE Spec2Model ----
(***************************************************************************)
(* Model of src/a.py, the "Ethiopia User Activity Map" Streamlit script:   *)
(* the cached loader load_data (lines 10-29) and the top-level script that *)
(* consumes its result (lines 31-108).                                     *)
(*                                                                         *)
(* Text is a sequence of one-character strings.  A cell, of map.xlsx or   *)
(* of a DataFrame, is a record                                             *)
(*    [t, s, m, e]   t = "str": the text s                                 *)
(*                   t = "num": the finite number m / 10^e                 *)
(*                   t = "inf": the float +inf                             *)
(*                   t = "nan": a missing value (NaN)                      *)
(* A table is [cols, rows]: the set of column names and the sequence of    *)
(* rows, each row [idx, cells] with idx the DataFrame index label and      *)
(* cells a function from cols to cells.  The variable drawn records that   *)
(* some run has added the radius column to the frame it had got.           *)
(***************************************************************************)
EXTENDS Integers, Sequences, FiniteSets, TLC

VARIABLES file, cache, df, out, pc, exc, size, first, touched, drawn

vars == <<file, cache, df, out, pc, exc, size, first, touched, drawn>>

(* ------------------------------ bounds -------------------------------- *)

\* longest 'Custom parameter' text enumerated
MaxLen == 5

\* longest 'Event count' / 'Total users' text enumerated
MaxCountLen == 2

(* ------------------------------- text --------------------------------- *)

Digits == {"0", "1"}

\* the characters texts are built from: digits, the dot, the two kinds of
\* separator of the pattern (comma, whitespace) and one other character
Chars == Digits \cup {".", ",", " ", "x"}

Strings(n) == UNION {[1..k -> Chars] : k \in 0..n}

SubStr(s, i, j) == [k \in 1..(j - i + 1) |-> s[i + k - 1]]

\* the regex class [\d\.]
IsDD(c) == c \in Digits \cup {"."}

\* the regex class [,\s]
IsSep(c) == c \in {",", " "}

AllSep(s, i, j) == \A k \in i..j : IsSep(s[k])

(* ------------------------------ cells --------------------------------- *)

NaN == [t |-> "nan", s |-> <<>>, m |-> 0, e |-> 0]

Inf == [t |-> "inf", s |-> <<>>, m |-> 0, e |-> 0]

Str(s) == [t |-> "str", s |-> s, m |-> 0, e |-> 0]

RECURSIVE Norm(_, _)
\* m / 10^e in lowest terms of the power of ten
Norm(m, e) == IF e > 0 /\ m % 10 = 0 THEN Norm(m \div 10, e - 1)
              ELSE [t |-> "num", s |-> <<>>, m |-> m, e |-> e]

Num(m, e) == Norm(m, e)

IsNumber(c) == c.t \in {"num", "inf"}

DigitVal(c) == IF c = "0" THEN 0 ELSE 1

RECURSIVE DigitsValue(_)
\* the integer a sequence of digits denotes (the dot, if any, skipped)
DigitsValue(s) ==
    IF Len(s) = 0 THEN 0
    ELSE LET h == SubStr(s, 1, Len(s) - 1)
             c == s[Len(s)]
         IN  IF c = "." THEN DigitsValue(h) ELSE 10 * DigitsValue(h) + DigitVal(c)

RECURSIVE StripLeft(_)
StripLeft(s) == IF Len(s) > 0 /\ s[1] = " " THEN StripLeft(Tail(s)) ELSE s

RECURSIVE StripRight(_)
StripRight(s) == IF Len(s) > 0 /\ s[Len(s)] = " "
                 THEN StripRight(SubStr(s, 1, Len(s) - 1)) ELSE s

DotsAt(s) == {k \in 1..Len(s) : s[k] = "."}

\* the float parser behind pd.to_numeric on a text: surrounding whitespace
\* skipped, digits with at most one dot and at least one digit; anything
\* else does not parse (NaN under errors='coerce')
ParseFloat(s) ==
    LET t == StripRight(StripLeft(s))
        dots == DotsAt(t)
    IN  IF /\ Len(t) > 0
           /\ \A k \in 1..Len(t) : IsDD(t[k])
           /\ Cardinality(dots) <= 1
           /\ Cardinality(dots) < Len(t)
        THEN Num(DigitsValue(t),
                 IF dots = {} THEN 0 ELSE Len(t) - (CHOOSE k \in dots : TRUE))
        ELSE NaN

\* pd.to_numeric(x, errors='coerce') on one cell
ToNumeric(c) == IF c.t = "str" THEN ParseFloat(c.s) ELSE c

\* fault: the missing values are left as they are
FillNaSkipped(c, v) == c

\* Series.fillna(v) on one cell
FillNa(c, v) == IF c.t = "nan" THEN v ELSE c

One == Num(1, 0)

(* --------------------- coordinate extraction -------------------------- *)

RECURSIVE DDEnd(_, _)
\* where [\d\.]* stops when it starts at position i and takes all it can
\* (i - 1 when s[i] is not in the class)
DDEnd(s, i) == IF i <= Len(s) /\ IsDD(s[i]) THEN DDEnd(s, i + 1) ELSE i - 1

RECURSIVE SepEnd(_, _)
\* where [,\s]* stops when it starts at position i and takes all it can
SepEnd(s, i) == IF i <= Len(s) /\ IsSep(s[i]) THEN SepEnd(s, i + 1) ELSE i - 1

Min(S) == CHOOSE x \in S : \A y \in S : x <= y

Max(S) == CHOOSE x \in S : \A y \in S : y <= x

\* the ends k of [,\s]+ started at position p after which ([\d\.]+) matches
SepEnds(s, p) == {k \in p..SepEnd(s, p) : k < Len(s) /\ IsDD(s[k + 1])}

\* the ends j of ([\d\.]+) started at position i after which the rest of
\* r'([\d\.]+)[,\s]+([\d\.]+)' matches
GroupEnds(s, i) == {j \in i..DDEnd(s, i) : SepEnds(s, j + 1) # {}}

\* the match whose group 1 is s[i..j] and whose separators end at k
MatchTail(s, i, j, k) == <<i, j, k, DDEnd(s, k + 1)>>

\* the match whose group 1 is s[i..j]
MatchFrom(s, i, j) == MatchTail(s, i, j, Max(SepEnds(s, j + 1)))

\* the positions at which r'([\d\.]+)[,\s]+([\d\.]+)' matches
Starts(s) == {i \in 1..Len(s) : GroupEnds(s, i) # {}}

\* the match that starts at i, given that one does
MatchAt(s, i) == MatchFrom(s, i, Max(GroupEnds(s, i)))

\* the match re.search reports for r'([\d\.]+)[,\s]+([\d\.]+)': the leftmost
\* start, then each greedy quantifier as long as the rest of the pattern
\* still matches.  <<i, j, k, l>>: group 1 is s[i..j], the separators
\* s[j+1..k], group 2 s[k+1..l]; <<>> when the pattern matches nowhere
Search(s) == IF Starts(s) = {} THEN <<>> ELSE MatchAt(s, Min(Starts(s)))

\* the two captured groups of the match q of the text s
Groups(s, q) ==
    IF q = <<>> THEN <<NaN, NaN>>
    ELSE <<Str(SubStr(s, q[1], q[2])), Str(SubStr(s, q[3] + 1, q[4]))>>

\* Series.str.extract on one cell: the two captured groups, or NaN in both
\* columns when the cell is not text or the pattern does not match
Extract(c) == IF c.t = "str" THEN Groups(c.s, Search(c.s)) ELSE <<NaN, NaN>>

(* ------------------------------ tables -------------------------------- *)

CP == "Custom parameter"

EC == "Event count"

TU == "Total users"

LOC == "Location"

\* pd.DataFrame(): no columns, no rows
EmptyFrame == [cols |-> {}, rows |-> <<>>]

\* fault: only the columns are looked at
IsEmptyNoColumns(d) == d.cols = {}

\* DataFrame.empty: some axis has length 0
IsEmpty(d) == d.cols = {} \/ Len(d.rows) = 0

\* df[name] = values, row by row: an existing column is overwritten, a new
\* one is appended; every other cell is left as it is
SetCell(r, name, v) ==
    [idx |-> r.idx,
     cells |-> [c \in DOMAIN r.cells \cup {name} |-> IF c = name THEN v ELSE r.cells[c]]]

\* pd.read_excel on one cell: the empty text is one of the default NA
\* values and is read as a missing value
ReadNa(c) == IF c = Str(<<>>) THEN NaN ELSE c

\* pd.read_excel infers a column's type: the column is numeric when every
\* cell of it is missing or reads as a number
NumericColumn(f, name) ==
    \A i \in 1..Len(f.rows) :
        ReadNa(f.rows[i][name]).t = "nan" \/ ToNumeric(f.rows[i][name]).t # "nan"

\* the cell of row i, column name, as pd.read_excel hands it over: the
\* texts of a numeric column converted to the numbers they read as
ReadCell(f, i, name) ==
    IF NumericColumn(f, name) THEN ToNumeric(ReadNa(f.rows[i][name]))
    ELSE ReadNa(f.rows[i][name])

\* what pd.read_excel('map.xlsx') returns for a readable file: the rows
\* under a RangeIndex, each column with its inferred type
ReadExcel(f) ==
    [cols |-> f.cols,
     rows |-> [i \in 1..Len(f.rows) |->
                 [idx |-> i - 1, cells |-> [c \in f.cols |-> ReadCell(f, i, c)]]]]

\* the exception pd.read_excel raises, "none" for a readable spreadsheet
ReadError(f) ==
    CASE f.kind = "missing" -> "FileNotFoundError"
      [] f.kind = "corrupt" -> "ValueError"
      [] OTHER -> "none"

\* Series.str on a column: only a column holding text has the accessor (a
\* column without a single text cell is numeric and raises AttributeError);
\* a column without rows has it
HasStrAccessor(d, name) ==
    Len(d.rows) = 0 \/ \E i \in 1..Len(d.rows) : d.rows[i].cells[name].t = "str"

\* fault: the two captured groups are taken in the wrong order
WithCoordsSwapped(r) ==
    SetCell(SetCell(r, "lat", ToNumeric(Extract(r.cells[CP])[2])),
            "lon", ToNumeric(Extract(r.cells[CP])[1]))

\* lines 16-18 on one row
WithCoords(r) ==
    SetCell(SetCell(r, "lat", ToNumeric(Extract(r.cells[CP])[1])),
            "lon", ToNumeric(Extract(r.cells[CP])[2]))

\* fault: the coercion is applied to every column of the row
WithCountEverywhere(r, name) ==
    [idx |-> r.idx,
     cells |-> [c \in DOMAIN r.cells |->
                  IF c \in {"lat", "lon"} THEN r.cells[c]
                  ELSE FillNa(ToNumeric(r.cells[c]), One)]]

\* lines 21-22 on one row, one column
WithCount(r, name) == SetCell(r, name, FillNa(ToNumeric(r.cells[name]), One))

\* fault: no row is dropped
KeepRowAlways(r) == TRUE

\* fault: dropna(how='all'), a row is dropped only when both are missing
KeepRowEither(r) == r.cells["lat"].t # "nan" \/ r.cells["lon"].t # "nan"

\* dropna(subset=['lat', 'lon']) keeps a row when neither cell is missing
KeepRow(r) == r.cells["lat"].t # "nan" /\ r.cells["lon"].t # "nan"

RECURSIVE KeptRows(_)
\* the rows dropna keeps, in their order and under their index labels
KeptRows(rows) ==
    IF Len(rows) = 0 THEN <<>>
    ELSE IF KeepRow(Head(rows)) THEN <<Head(rows)>> \o KeptRows(Tail(rows))
         ELSE KeptRows(Tail(rows))

\* DataFrame.dropna(subset=['lat', 'lon'])
DropNa(d) == [cols |-> d.cols, rows |-> KeptRows(d.rows)]

\* lines 16-18: the frame with its lat and lon columns
AddCoords(d) ==
    [cols |-> d.cols \cup {"lat", "lon"},
     rows |-> [i \in 1..Len(d.rows) |-> WithCoords(d.rows[i])]]

\* line 21 (name = 'Event count') and line 22 (name = 'Total users')
CoerceCount(d, name) ==
    [cols |-> d.cols, rows |-> [i \in 1..Len(d.rows) |-> WithCount(d.rows[i], name)]]

Raise(e) == [raised |-> TRUE, exc |-> e, df |-> EmptyFrame]

Return(d) == [raised |-> FALSE, exc |-> "none", df |-> d]

\* the body of the try block of load_data, lines 13-25: the frame it
\* returns or the exception it raises
LoadBody(f) ==
    IF ReadError(f) # "none" THEN Raise(ReadError(f))
    ELSE IF CP \notin f.cols THEN Raise("KeyError")
    ELSE IF ~HasStrAccessor(ReadExcel(f), CP) THEN Raise("AttributeError")
    ELSE IF EC \notin f.cols THEN Raise("KeyError")
    ELSE IF TU \notin f.cols THEN Raise("KeyError")
    ELSE Return(DropNa(CoerceCount(CoerceCount(AddCoords(ReadExcel(f)), EC), TU)))

\* fault: the except clause names the errors of reading the file only
CatchesReadErrors(e) == e \in {"FileNotFoundError", "ValueError"}

\* the exceptions the except clause of load_data catches: Exception, that
\* is every exception the body can raise
Catches(e) == TRUE

Element(el, arg) == [el |-> el, arg |-> arg, n |-> 0]

Metric(label, n) == [el |-> "metric", arg |-> label, n |-> n]

\* load_data without its cache, lines 11-29: the frame returned, the
\* elements shown while it ran, and the exception that escapes it, if any
LoadUncached(f) ==
    LET b == LoadBody(f)
    IN  IF ~b.raised THEN [df |-> b.df, msgs |-> <<>>, exc |-> "none"]
        ELSE IF Catches(b.exc)
             THEN [df |-> EmptyFrame,
                   msgs |-> <<Element("error", "Data loading error: " \o b.exc)>>,
                   exc |-> "none"]
             ELSE [df |-> EmptyFrame, msgs |-> <<>>, exc |-> b.exc]

(* ---------------------------- the cache ------------------------------- *)

NoCache == [hit |-> FALSE, key |-> "", df |-> EmptyFrame, msgs |-> <<>>]

\* the key st.cache_data files a result under: the function and its
\* arguments.  load_data takes no argument, so the file is no part of it.
CacheKey(f) == "load_data"

\* fault: the cache hands out the stored frame itself (st.cache_resource)
CacheAliased(c, d) == IF c.hit THEN [c EXCEPT !.df = d] ELSE c

\* st.cache_data hands each caller its own copy of the stored value: what
\* the caller then does to the frame it got does not reach the cache
CacheAfterMutation(c, d) == c

\* the call load_data() of line 31 through st.cache_data: a stored result
\* is returned (and its elements replayed) without running the function
CachedLoad(c, f) ==
    IF c.hit /\ c.key = CacheKey(f)
    THEN [df |-> c.df, msgs |-> c.msgs, exc |-> "none", cache |-> c]
    ELSE LET r == LoadUncached(f)
         IN  [df |-> r.df, msgs |-> r.msgs, exc |-> r.exc,
              cache |-> IF r.exc = "none"
                        THEN [hit |-> TRUE, key |-> CacheKey(f), df |-> r.df, msgs |-> r.msgs]
                        ELSE c]

(* ------------------------- the script's steps ------------------------- *)

\* st.slider("Point Size", 1, 50, 15)
SliderMin == 1

SliderMax == 50

SliderDefault == 15

\* the values of the slider the model tries
Sizes == {SliderMin, SliderDefault, SliderMax}

RECURSIVE Pow10(_)
Pow10(n) == IF n = 0 THEN 1 ELSE 10 * Pow10(n - 1)

RECURSIVE SumScaled(_, _, _)
\* the sum of the finite cells of column name, in units of 10^-e
SumScaled(rows, name, e) ==
    IF Len(rows) = 0 THEN 0
    ELSE LET c == Head(rows).cells[name]
         IN  (IF c.t = "num" THEN c.m * Pow10(e - c.e) ELSE 0)
             + SumScaled(Tail(rows), name, e)

ColumnCells(d, name) == {d.rows[i].cells[name] : i \in 1..Len(d.rows)}

\* int(a / b) for b > 0: int() truncates toward zero
TruncDiv(a, b) == IF a >= 0 THEN a \div b ELSE 0 - ((0 - a) \div b)

\* the rows whose cell in column name is not missing
Present(d, name) == {i \in 1..Len(d.rows) : d.rows[i].cells[name].t # "nan"}

\* the largest number of decimals among the cells of column name
Decimals(d, name) == Max({c.e : c \in ColumnCells(d, name)} \cup {0})

\* int(df['Event count'].mean()), line 47: Series.mean skips NaN; int() of
\* a NaN raises ValueError and of an infinity OverflowError
AvgEvents(d) ==
    IF Present(d, EC) = {} THEN [exc |-> "ValueError", n |-> 0]
    ELSE IF Inf \in ColumnCells(d, EC) THEN [exc |-> "OverflowError", n |-> 0]
    ELSE [exc |-> "none",
          n |-> TruncDiv(SumScaled(d.rows, EC, Decimals(d, EC)),
                         Pow10(Decimals(d, EC)) * Cardinality(Present(d, EC)))]

\* pd.to_numeric(df['Event count']) * size / 5 on one cell, line 63
Radius(c, sz) == IF c.t = "num" THEN Num(c.m * sz * 2, c.e + 1) ELSE c

\* df['radius'] = ..., line 63
WithRadius(d, sz) ==
    [cols |-> d.cols \cup {"radius"},
     rows |-> [i \in 1..Len(d.rows) |->
                 SetCell(d.rows[i], "radius", Radius(ToNumeric(d.rows[i].cells[EC]), sz))]]

\* the columns line 99 selects for the preview
PreviewCols == {LOC, "lat", "lon", EC, TU}

\* line 31, df = load_data()
LoadData ==
    /\ pc = "load"
    /\ LET r == CachedLoad(cache, file)
       IN  /\ cache' = r.cache
           /\ IF r.exc # "none"
              THEN /\ pc' = "crashed" /\ exc' = r.exc
                   /\ UNCHANGED <<df, out, first>>
              ELSE /\ pc' = "check"
                   /\ df' = r.df
                   /\ out' = out \o r.msgs
                   /\ first' = IF first.set THEN first ELSE [set |-> TRUE, df |-> r.df]
                   /\ UNCHANGED exc
    /\ UNCHANGED <<file, size, touched, drawn>>

\* lines 34-37: the emptiness check, st.stop() ends the run
DebugInfo ==
    /\ pc = "check"
    /\ IF IsEmpty(df)
       THEN /\ out' = out \o <<Element("warning", "No valid data found! Check your Excel file."),
                               Element("write", "Required columns: 'Custom parameter' (with lat,lon), 'Event count', 'Total users'")>>
            /\ pc' = "stopped"
       ELSE /\ pc' = "sidebar"
            /\ UNCHANGED out
    /\ UNCHANGED <<file, cache, df, exc, size, first, touched, drawn>>

\* lines 40-47: the sidebar; nothing catches what line 47 raises
Controls ==
    /\ pc = "sidebar"
    /\ LET shown == out \o <<Element("header", "Controls"),
                             Metric("Point Size", size),
                             Element("color_picker", "Point Color"),
                             Metric("Valid Locations", Len(df.rows))>>
           avg == AvgEvents(df)
       IN  IF avg.exc # "none"
           THEN /\ out' = shown /\ pc' = "crashed" /\ exc' = avg.exc
           ELSE /\ out' = shown \o <<Metric("Avg Events", avg.n)>>
                /\ pc' = "render" /\ UNCHANGED exc
    /\ UNCHANGED <<file, cache, df, size, first, touched, drawn>>

\* lines 50-99: the map.  The colour picker only returns "#rrggbb" texts, so
\* line 52 does not raise; the frame gets its radius column (line 63)
\* before the chart is built, and building or showing the chart (lines
\* 66-94, pydeck and Streamlit) succeeds or raises.  The except clause
\* shows the error and the preview; nothing catches what line 99 raises.
MapView ==
    /\ pc = "render"
    /\ LET d == WithRadius(df, size)
       IN  /\ df' = d
           /\ cache' = CacheAfterMutation(cache, d)
           /\ \E fails \in BOOLEAN :
                IF ~fails
                THEN /\ out' = out \o <<Element("pydeck_chart", "ScatterplotLayer")>>
                     /\ pc' = "quality" /\ UNCHANGED exc
                ELSE LET shown == out \o <<Element("error", "Map rendering failed"),
                                           Element("info", "Debug Data Preview:")>>
                     IN  IF PreviewCols \subseteq d.cols
                         THEN /\ out' = shown \o <<Element("dataframe", "preview")>>
                              /\ pc' = "quality" /\ UNCHANGED exc
                         ELSE /\ out' = shown /\ pc' = "crashed" /\ exc' = "KeyError"
    /\ drawn' = TRUE
    /\ UNCHANGED <<file, size, first, touched>>

\* lines 102-108: the data-quality panel
Quality ==
    /\ pc = "quality"
    /\ out' = out \o <<Element("expander", "Data Quality Check"),
                       Element("write", "Coordinate ranges:"),
                       Element("write", "Latitude"),
                       Element("write", "Longitude"),
                       Element("map", "fallback")>>
    /\ pc' = "done"
    /\ UNCHANGED <<file, cache, df, exc, size, first, touched, drawn>>

RunEnded == pc \in {"done", "stopped", "crashed"}

\* lines 6-7: every run starts with the page's title (set_page_config
\* shows nothing)
PageStart == <<Element("title", "Ethiopia User Activity Map")>>

\* Streamlit runs the script again (a widget was used, the page reloaded),
\* also while a run is in progress, which it abandons: the slider may have
\* a new value, the page starts over with lines 6-7
Rerun ==
    /\ pc # "load"
    /\ \E sz \in Sizes : size' = sz
    /\ pc' = "load" /\ out' = PageStart /\ exc' = "none" /\ df' = EmptyFrame
    /\ UNCHANGED <<file, cache, first, touched, drawn>>

\* the cache is cleared by hand (Streamlit's "Clear cache") between runs
ClearCache ==
    /\ RunEnded /\ cache.hit
    /\ cache' = NoCache
    /\ UNCHANGED <<file, df, out, pc, exc, size, first, touched, drawn>>

(* ------------------------------ inputs -------------------------------- *)

AllCols == {CP, EC, TU, LOC}

T(s) == Str(s)

\* a row of a spreadsheet with the columns cols
MkRow(cols, cp, ec, tu, loc) ==
    [c \in cols |-> CASE c = CP -> cp [] c = EC -> ec [] c = TU -> tu [] OTHER -> loc]

Table(cols, rows) == [kind |-> "ok", cols |-> cols, rows |-> rows]

Unreadable(kind) == [kind |-> kind, cols |-> {}, rows |-> <<>>]

GoodCP == T(<<"1", ".", "0", ",", " ", "0", ".", "1">>)

BadCP == T(<<"x">>)

GoodRow(cols) == MkRow(cols, GoodCP, T(<<"1", "1">>), NaN, T(<<"x">>))

BadRow(cols) == MkRow(cols, BadCP, T(<<"1">>), T(<<"1">>), T(<<"x">>))

\* the spreadsheets the script is run on
ScriptFiles ==
    {Unreadable("missing"),
     Table(AllCols, <<>>),
     Table(AllCols, <<GoodRow(AllCols)>>),
     Table(AllCols, <<BadRow(AllCols)>>),
     Table(AllCols, <<BadRow(AllCols), GoodRow(AllCols)>>),
     Table(AllCols \ {LOC}, <<GoodRow(AllCols \ {LOC})>>),
     Table(AllCols \ {EC}, <<GoodRow(AllCols \ {EC})>>),
     Table(AllCols, <<MkRow(AllCols, GoodCP, Inf, T(<<"1">>), T(<<"x">>))>>),
     Table(AllCols, <<MkRow(AllCols, GoodCP, Num(0 - 1, 0), T(<<"1">>), T(<<"1">>)),
                      MkRow(AllCols, GoodCP, Num(0, 0), T(<<>>), T(<<>>))>>),
     Table(AllCols, <<MkRow(AllCols, T(<<"1", "1">>), T(<<"1">>), T(<<"1">>), T(<<"x">>))>>)}

\* map.xlsx is replaced between runs
ChangeFile ==
    /\ RunEnded
    /\ \E f \in ScriptFiles \ {file} : file' = f
    /\ touched' = TRUE
    /\ UNCHANGED <<cache, df, out, pc, exc, size, first, drawn>>

InitRest ==
    /\ cache = NoCache /\ df = EmptyFrame /\ out = PageStart /\ pc = "load"
    /\ exc = "none" /\ size = SliderDefault
    /\ first = [set |-> FALSE, df |-> EmptyFrame] /\ touched = FALSE
    /\ drawn = FALSE

Init == file \in ScriptFiles /\ InitRest

Next == LoadData \/ DebugInfo \/ Controls \/ MapView \/ Quality
        \/ Rerun \/ ClearCache \/ ChangeFile

Spec == Init /\ [][Next]_vars

(* --------------------- the loader on its own --------------------------- *)

CountCells == {Str(s) : s \in Strings(MaxCountLen)} \cup {NaN, Inf, Num(15, 1)}

SmallCounts == {NaN, T(<<"1", "0">>), T(<<"x">>)}

\* a row around a 'Custom parameter' cell
CoordRow(cp) == MkRow(AllCols, cp, T(<<"1">>), NaN, T(<<"x">>))

SecondRows ==
    {GoodRow(AllCols), BadRow(AllCols), MkRow(AllCols, NaN, Inf, Num(15, 1), NaN)}

\* spreadsheets that are unreadable, lack a column or have columns of their own
OddFiles ==
    ScriptFiles
    \cup {Unreadable("corrupt")}
    \cup {Table(AllCols, <<r>>) : r \in SecondRows \cup {CoordRow(Num(15, 1))}}
    \cup {Table(AllCols, <<r, r2>>) : r \in SecondRows, r2 \in SecondRows}
    \cup {Table(cols, <<GoodRow(cols), BadRow(cols)>>) :
            cols \in {AllCols \ {CP}, AllCols \ {TU}, AllCols \cup {"lat"},
                      AllCols \cup {"lon", "Region"}}}

\* a spreadsheet of one row, or of that row and one of SecondRows
OneOrTwo(f, r) ==
    \/ f = Table(AllCols, <<r>>)
    \/ \E r2 \in SecondRows : f = Table(AllCols, <<r, r2>>)

\* the spreadsheets load_data is applied to: every 'Custom parameter' text
\* up to MaxLen, every count text up to MaxCountLen against a few values of
\* the other count, and the odd ones
IsLoadFile(f) ==
    \/ f \in OddFiles
    \/ \E k \in 0..MaxLen : \E s \in [1..k -> Chars] :
          f = Table(AllCols, <<CoordRow(Str(s))>>)
    \/ \E cp \in {GoodCP, BadCP} : \E c \in CountCells : \E d \in SmallCounts :
          \/ OneOrTwo(f, MkRow(AllCols, cp, c, d, T(<<"x">>)))
          \/ OneOrTwo(f, MkRow(AllCols, cp, d, c, T(<<"x">>)))

InitLoad == IsLoadFile(file) /\ InitRest

\* one uncached call of load_data on each spreadsheet
SpecLoad == InitLoad /\ [][LoadData]_vars

(* ------------------- what the claims speak about ---------------------- *)

\* the call of line 31 has returned
Loaded == pc = "check"

ReqCols == {CP, EC, TU}

\* a readable spreadsheet with the three columns load_data reads
WellFormed(f) == f.kind = "ok" /\ ReqCols \subseteq f.cols

RowIds(f) == 1..Len(f.rows)

\* the rows whose 'Custom parameter' cell is a text
TextRows(f) == {i \in RowIds(f) : CP \in f.cols /\ f.rows[i][CP].t = "str"}

\* the index labels of the rows of the loaded frame
OutIdx == {df.rows[k].idx : k \in 1..Len(df.rows)}

\* input row i (counted from 1) is in the loaded frame
InOutput(i) == (i - 1) \in OutIdx

\* the cells of input row i in the loaded frame
OutCells(i) == df.rows[CHOOSE k \in 1..Len(df.rows) : df.rows[k].idx = i - 1].cells

Shown(el) == \E k \in 1..Len(out) : out[k].el = el

\* the stretches s[i..j] of s, as <<i, j>>
Spans(s) == {p \in (1..Len(s)) \X (1..Len(s)) : p[1] <= p[2]}

\* the stretches a, separators, b of s as <<i, j, k, l>>: a is s[i..j], the
\* separators s[j+1..k], b is s[k+1..l]
Joined(s, A, B) ==
    {<<p[1][1], p[1][2], p[2][1] - 1, p[2][2]>> :
        p \in {x \in A \X B : /\ x[1][2] + 1 < x[2][1]
                               /\ AllSep(s, x[1][2] + 1, x[2][1] - 1)}}

AllDigits(s, i, j) == i <= j /\ \A k \in i..j : s[k] \in Digits

AllDD(s, i, j) == i <= j /\ \A k \in i..j : IsDD(s[k])

\* s[i..j] is a decimal as the specification words it: digits, optionally
\* followed by a dot and more digits
IsDecimal(s, i, j) ==
    \/ AllDigits(s, i, j)
    \/ \E d \in (i + 1)..(j - 1) :
          s[d] = "." /\ AllDigits(s, i, d - 1) /\ AllDigits(s, d + 1, j)

\* <decimal>, separators, <decimal> inside s, in every way
DecimalPairs(s) ==
    Joined(s, {p \in Spans(s) : IsDecimal(s, p[1], p[2])},
              {p \in Spans(s) : IsDecimal(s, p[1], p[2])})

\* q is found before r by a search: further left, or as far left and longer
Before(q, r) ==
    \/ q[1] < r[1]
    \/ q[1] = r[1] /\ q[2] > r[2]
    \/ q[1] = r[1] /\ q[2] = r[2] /\ q[3] > r[3]
    \/ q[1] = r[1] /\ q[2] = r[2] /\ q[3] = r[3] /\ q[4] >= r[4]

FirstOf(M) == CHOOSE q \in M : \A r \in M : Before(q, r)

FracLen(r) == IF DotsAt(r) = {} THEN 0 ELSE Len(r) - Max(DotsAt(r))

\* the number the digits and the dot of s[i..j] denote
DecimalValue(s, i, j) == Num(DigitsValue(SubStr(s, i, j)), FracLen(SubStr(s, i, j)))

\* s[i..j] is a run: digits and dots, with neither before it nor after it
IsRun(s, i, j) ==
    /\ AllDD(s, i, j)
    /\ (i = 1 \/ ~IsDD(s[i - 1]))
    /\ (j = Len(s) \/ ~IsDD(s[j + 1]))

\* <run>, separators, <run> inside s, in every way
RunPairs(s) ==
    Joined(s, {p \in Spans(s) : IsRun(s, p[1], p[2])},
              {p \in Spans(s) : IsRun(s, p[1], p[2])})

\* a run that reads as a number: at least one digit, at most one dot
ReadableRun(s, i, j) ==
    /\ \E k \in i..j : s[k] \in Digits
    /\ Cardinality({k \in i..j : s[k] = "."}) <= 1

ReadablePair(s, q) == ReadableRun(s, q[1], q[2]) /\ ReadableRun(s, q[3] + 1, q[4])

\* the text has a first <run>, separators, <run> and both runs read as numbers
HasCoords(s) == RunPairs(s) # {} /\ ReadablePair(s, FirstOf(RunPairs(s)))

\* lat and lon of the loaded row i are the two numbers of the match q of s
CoordsAre(i, s, q) ==
    /\ InOutput(i)
    /\ OutCells(i)["lat"] = DecimalValue(s, q[1], q[2])
    /\ OutCells(i)["lon"] = DecimalValue(s, q[3] + 1, q[4])

CPText(i) == file.rows[i][CP].s

(* ------------------------------- C1 ----------------------------------- *)

\* the failures the claim lists
ListedFailure(f) == f.kind # "ok" \/ ~(ReqCols \subseteq f.cols)

\* C1: load_data never raises to its caller: on every failure while reading
\* or normalizing (file missing or unreadable, not a spreadsheet, a required
\* column absent) it returns an empty record set and shows an error message
C1_NeverRaises ==
    /\ pc # "crashed" /\ exc = "none"
    /\ (Loaded /\ ListedFailure(file)) => (df.rows = <<>> /\ Shown("error"))

C1_Witness ==
    /\ Loaded /\ file.kind = "ok" /\ Len(file.rows) > 0 /\ EC \notin file.cols
    /\ df.rows = <<>> /\ Shown("error")

(* ------------------------------- C2 ----------------------------------- *)

\* C2 as stated: every row whose text contains <decimal>, separators,
\* <decimal> (decimal = digits, optionally a dot and more digits) is in the
\* output with lat the first and lon the second of those numbers
C2_AsStated ==
    (Loaded /\ WellFormed(file)) =>
        \A i \in TextRows(file) :
            DecimalPairs(CPText(i)) # {} =>
                CoordsAre(i, CPText(i), FirstOf(DecimalPairs(CPText(i))))

\* C2, amended: every row whose text has a first <run>, separators, <run>
\* (run = a maximal sequence of digits and dots) both of which read as
\* numbers (at least one digit, at most one dot) is in the output with lat
\* the first run and lon the second
C2_Coords ==
    (Loaded /\ WellFormed(file)) =>
        \A i \in TextRows(file) :
            HasCoords(CPText(i)) =>
                CoordsAre(i, CPText(i), FirstOf(RunPairs(CPText(i))))

C2_Witness ==
    /\ Loaded /\ WellFormed(file)
    /\ \E i \in TextRows(file) :
          /\ HasCoords(CPText(i)) /\ InOutput(i)
          /\ FirstOf(RunPairs(CPText(i)))[1] > 1
          /\ OutCells(i)["lat"] = Num(1, 1)
          /\ OutCells(i)["lon"] = Num(1, 0)

(* ------------------------------- C3 ----------------------------------- *)

MatchesDecimals(c) == c.t = "str" /\ DecimalPairs(c.s) # {}

\* C3 as stated: a row whose text does not match <decimal>, separators,
\* <decimal> is absent from the output
C3_AsStated ==
    Loaded => \A i \in RowIds(file) :
                 (CP \in file.cols /\ ~MatchesDecimals(file.rows[i][CP])) => ~InOutput(i)

\* a digit or dot, then separators, then a digit or dot, somewhere in s
ContainsRuns(s) ==
    \E j \in 1..Len(s) : \E k \in (j + 1)..(Len(s) - 1) :
        IsDD(s[j]) /\ AllSep(s, j + 1, k) /\ IsDD(s[k + 1])

MatchesRuns(c) == c.t = "str" /\ ContainsRuns(c.s)

\* C3, amended: a row whose 'Custom parameter' is not a text containing one
\* or more digits-or-dots, then one or more commas or whitespace, then one
\* or more digits-or-dots, is absent from the output
C3_Absent ==
    Loaded => \A i \in RowIds(file) :
                 (CP \in file.cols /\ ~MatchesRuns(file.rows[i][CP])) => ~InOutput(i)

C3_Witness ==
    /\ Loaded /\ WellFormed(file) /\ Len(file.rows) = 2
    /\ ~MatchesRuns(file.rows[1][CP]) /\ ~InOutput(1)
    /\ MatchesRuns(file.rows[2][CP]) /\ InOutput(2)

(* ------------------------------- C4 ----------------------------------- *)

\* the cell reads as a number: a number, or a text pd.to_numeric parses
Parses(c) == ToNumeric(c).t # "nan"

\* the count cell name of the loaded row i is the number its input cell
\* reads as, and 1.0 when it reads as none
CountIs(i, name) ==
    /\ IsNumber(OutCells(i)[name])
    /\ Parses(file.rows[i][name]) => OutCells(i)[name] = ToNumeric(file.rows[i][name])
    /\ ~Parses(file.rows[i][name]) => OutCells(i)[name] = Num(1, 0)

\* C4: in every output row 'Event count' and 'Total users' are numbers,
\* never missing: each is, on its own, the parsed value of its input cell
\* when that parses and exactly 1.0 when the cell is missing, blank or
\* unparseable
C4_Counts ==
    Loaded => \A i \in RowIds(file) : InOutput(i) => CountIs(i, EC) /\ CountIs(i, TU)

C4_Witness ==
    /\ Loaded
    /\ \E i \in RowIds(file) :
          /\ InOutput(i)
          /\ file.rows[i][EC].t = "str" /\ ~Parses(file.rows[i][EC])
          /\ OutCells(i)[EC] = Num(1, 0)
          /\ file.rows[i][TU].t = "str" /\ OutCells(i)[TU] = Num(10, 0)

(* ------------------------------- C5 ----------------------------------- *)

\* lat and lon can both be derived from the cell
Derivable(c) == c.t = "str" /\ HasCoords(c.s)

\* C5: on a load that does not fail, the output is exactly the input rows
\* for which both lat and lon were derived: each output row has both, as
\* numbers; a row lacking either is dropped; a row with both is kept
\* whatever its other cells hold
C5_ExactlyDerived ==
    (Loaded /\ ~Shown("error")) =>
        /\ OutIdx = {i - 1 : i \in {r \in RowIds(file) : Derivable(file.rows[r][CP])}}
        /\ \A k \in 1..Len(df.rows) :
              IsNumber(df.rows[k].cells["lat"]) /\ IsNumber(df.rows[k].cells["lon"])

\* one of the two runs reads as a number and the other does not
HalfReadable(s, q) ==
    ReadableRun(s, q[1], q[2]) # ReadableRun(s, q[3] + 1, q[4])

C5_Witness ==
    /\ Loaded /\ ~Shown("error") /\ Len(file.rows) = 1 /\ df.rows = <<>>
    /\ file.rows[1][CP].t = "str" /\ RunPairs(CPText(1)) # {}
    /\ HalfReadable(CPText(1), FirstOf(RunPairs(CPText(1))))

(* ------------------------------- C8 ----------------------------------- *)

\* the cells of input row i as line 13 read them, before lines 16-25
RawCells(i) == ReadExcel(file).rows[i].cells

\* the loaded row i holds the cells of the columns cols as they were read
Carried(i, cols) == \A c \in cols : OutCells(i)[c] = RawCells(i)[c]

\* C8 as stated: every output row carries all its input columns with their
\* values unchanged
C8_AsStated ==
    Loaded => \A i \in RowIds(file) :
                 InOutput(i) => Carried(i, file.cols \ {"lat", "lon"})

\* the columns load_data assigns
Assigned == {"lat", "lon", EC, TU}

\* C8, amended: every output row carries its input columns unchanged, but
\* for 'Event count' and 'Total users', which hold the coerced numbers
\* instead, and for input columns named 'lat' or 'lon', which hold the
\* derived coordinates instead
C8_Carried ==
    Loaded => \A i \in RowIds(file) : InOutput(i) => Carried(i, file.cols \ Assigned)

C8_Witness ==
    /\ Loaded /\ "lon" \in file.cols /\ "Region" \in file.cols
    /\ InOutput(1) /\ Carried(1, {CP, LOC, "Region"})
    /\ OutCells(1)["lon"] # RawCells(1)["lon"]
    /\ OutCells(1)[TU] # RawCells(1)[TU]

(* ------------------------------- C6 ----------------------------------- *)

\* what the script shows after the emptiness check
Downstream == {"header", "metric", "color_picker", "pydeck_chart", "dataframe",
               "expander", "map"}

DownstreamShown == \E k \in 1..Len(out) : out[k].el \in Downstream

\* the 'no valid data' warning and the line naming the required columns
WarningShown ==
    \E k \in 1..(Len(out) - 1) : out[k].el = "warning" /\ out[k + 1].el = "write"

\* the frame the script holds has no record
NoRecords == Len(df.rows) = 0

\* C6: whenever load_data returned an empty record set, the script shows
\* the 'no valid data' warning naming the required columns and halts: the
\* sidebar, the map, the fallback table and the data-quality panel are
\* never reached in that run
C6_EmptyHalts ==
    (pc # "load" /\ NoRecords) =>
        /\ pc \in {"check", "stopped"}
        /\ ~DownstreamShown
        /\ pc = "stopped" => WarningShown

C6_Witness ==
    /\ pc = "stopped" /\ file.kind = "ok" /\ Len(file.rows) > 0
    /\ WellFormed(file) /\ NoRecords /\ WarningShown /\ ~Shown("error")

(* ------------------------------- C7 ----------------------------------- *)

RenderFailed ==
    \E k \in 1..Len(out) : out[k] = Element("error", "Map rendering failed")

\* C7: no error ends a run of the script: every error raised after a
\* non-empty load becomes a message and a fallback view, and a render
\* failure always ends with the preview table shown
C7_NoErrorEndsRun ==
    /\ pc # "crashed"
    /\ (RunEnded /\ RenderFailed) => Shown("dataframe")

(* ------------------------------- C9 ----------------------------------- *)

\* C9: while the input file is unchanged, every invocation of load_data
\* returns the record set the first one returned, also after the caller
\* added the radius column to a set returned earlier
C9_Idempotent == (Loaded /\ ~touched) => df = first.df

\* a later run on the unchanged one-row file, after an earlier run added the
\* radius column to the set it had got
C9_Witness ==
    /\ Loaded /\ ~touched /\ drawn
    /\ file = Table(AllCols, <<GoodRow(AllCols)>>)
    /\ Len(df.rows) = 1 /\ "radius" \notin df.cols

(* ------------------------------- C10 ---------------------------------- *)

\* C10: the memoized load is keyed on the input: the result of an
\* invocation is the normalization of the file as it is at that invocation,
\* also after a failed load once the file has been fixed
C10_FollowsFile == Loaded => df = LoadUncached(file).df

====
